---------------------------- MODULE Spec2Model ----------------------------
(***************************************************************************)
(* Model of the ESP8266 flow-counter firmware (mqtt_flow_counter.ino):     *)
(* boot (setup), the run loop (checkForCommand, reconnect, the MQTT pump,  *)
(* getTick, handleTick), the console protocol (processCommand), the remote *)
(* command responder (incomingMqttHandler) and the EEPROM-backed settings  *)
(* record and pulse counter.                                               *)
(***************************************************************************)
EXTENDS Integers, Sequences, FiniteSets, TLC

(***************************************************************************)
(* Program constants.                                                      *)
(***************************************************************************)
\* unsigned long and unsigned int are 32 bits wide on the ESP8266.  A 32-bit
\* value is written as the integer of its bit pattern read in two's
\* complement: 0 .. 2^31-1 as themselves, 2^31 .. 2^32-1 as -2^31 .. -1.  Sums
\* and differences of 32-bit values are then the integer ones (the model stays
\* far from the one place, 2^31, where they would differ).  UMax is 2^32-1.
UMax == -1

\* mqtt_flow_counter.h is not part of the sources at hand; the three macros
\* below are used by the .ino and their values are taken as typical ones.
REPORT_FREQ == 1000

VALID_SETTINGS_FLAG == 55984

DEFAULT_PULSES_PER_LITER == 363

\* settings.mqttBrokerPort=1883 in the struct initializer and initializeSettings
DEFAULT_PORT == 1883

\* sizeof(pulseCount): an unsigned long of 32 bits
SizeofCount == 4

(***************************************************************************)
(* Bounds of the model.                                                    *)
(***************************************************************************)
\* handleTick calls explored per boot
MaxTicks == 3

\* console lines and remote messages explored per boot
MaxInputs == 1

\* rising edges are explored while the pulse counter is 2^32-1 or below this
MaxCount == 2

\* entries of the sensor line's waveform that getTick is run over
RawLen == 6

\* sizeof(settings) is taken from 1 to this many bytes
MaxStruct == 3

(***************************************************************************)
(* Arithmetic of the C types.                                              *)
(***************************************************************************)
\* unsigned 32-bit subtraction, as in ts-lastReportTime and cts-lastPulseTime
Sub32(a, b) == a - b

\* unsigned 32-bit increment, as in pulseCount++: from 2^32-1 it gives 0
Inc32(a) == a + 1

\* the unsigned comparison u > k of a 32-bit value with a constant 0 <= k < 2^31
Above(u, k) == u < 0 \/ u > k

\* the unsigned comparison a < b of two 32-bit values
Below(a, b) ==
  IF (a < 0) = (b < 0) THEN a < b ELSE b < 0

\* liters is a float holding pulseCount/pulsesPerLiter: kept as the exact quotient
Quot(n, d) == [num |-> n, den |-> d]

\* float liters=0.0
ZeroLiters == Quot(0, 1)

\* liters==0.0 (a quotient by zero is inf or nan, never 0.0)
IsZeroLiters(l) == l.den # 0 /\ l.num = 0

(***************************************************************************)
(* The settings record (typedef struct conf) and its compiled defaults.    *)
(***************************************************************************)
StructDefaults ==
  [ validConfig       |-> 0,
    ssid              |-> "",
    wifiPassword      |-> "",
    mqttBrokerAddress |-> "",
    mqttBrokerPort    |-> DEFAULT_PORT,
    mqttUsername      |-> "",
    mqttPassword      |-> "",
    mqttTopicRoot     |-> "",
    pulsesPerLiter    |-> DEFAULT_PULSES_PER_LITER ]


(***************************************************************************)
(* State.                                                                  *)
(***************************************************************************)
VARIABLES
  eeSettings,       \* EEPROM bytes 0..sizeof(settings)-1: the stored settings record
  eeCount,          \* EEPROM bytes at pulseCountStorage: the stored pulse counter
  settings,         \* conf settings
  settingsAreValid, \* boolean settingsAreValid
  lastReportTime,   \* unsigned long lastReportTime
  finalReportSent,  \* boolean finalReportSent
  lastTick,         \* boolean lastTick
  pulseCount,       \* unsigned long pulseCount
  liters,           \* float liters
  lastPulseTime,    \* unsigned long lastPulseTime
  pulsePeriod,      \* unsigned long pulsePeriod
  pc,               \* where the single thread of control stands
  now,              \* millis() as last read by handleTick in this boot
  ticks,            \* handleTick calls made in this boot
  inputs,           \* console lines and remote messages processed in this boot
  out,              \* what the last step published, in order
  ev,               \* what the last step did
  lastPub,          \* when handleTick made its last two reports of this boot (or fewer)
  drains,           \* drain reports of this boot since its last rising edge
  unrep,            \* pulses counted in this boot since the last report or reset
  consoleSaved,     \* <<r>>: the console protocol last saved r; << >>: not yet
  riseAt,           \* millis() as handleTick read it when it last counted a pulse
                    \* in this boot; 0: it has counted none in this boot
  lowSince,         \* handleTick was passed a low level since it last counted a
                    \* pulse in this boot, or has counted none in this boot
  flash,            \* the bytes of the storage area EEPROM.begin opened, first
                    \* one at address 0
  raw,              \* the level of the sensor line, one entry per DEBOUNCE_DELAY
  at                \* the entry of raw the next digitalRead falls on

ramVars == <<settings, settingsAreValid, lastReportTime, finalReportSent,
             lastTick, pulseCount, liters, lastPulseTime, pulsePeriod>>

vars == <<eeSettings, eeCount, settings, settingsAreValid, lastReportTime,
          finalReportSent, lastTick, pulseCount, liters, lastPulseTime,
          pulsePeriod, pc, now, ticks, inputs, out, ev,
          lastPub, drains, unrep, consoleSaved, riseAt, lowSince,
          flash, raw, at>>

\* what a step did: nothing
NoEvent ==
  [ restart |-> "none",    \* ESP.restart() was called, and from where
    rising  |-> FALSE,     \* tickEvent ran
    reports |-> << >>,     \* the report() calls: "periodic", "drain", "status"
    reset   |-> FALSE,     \* pulseCount was set to 0
    saved   |-> FALSE,     \* saveSettings ran
    valid   |-> FALSE,     \* settingsAreValid as saveSettings left it
    stored  |-> FALSE,     \* storePulseCount ran
    lost    |-> 0,         \* the calls of EEPROM.commit() that returned false
    complaints |-> 0,      \* the messages printed about such a call
    dump    |-> FALSE,     \* showSettings ran
    divided |-> FALSE,     \* liters was computed as pulseCount/settings.pulsesPerLiter
    atRestart |-> << >>,   \* <<settings, pulseCount>> as ESP.restart() found them
    sentBefore |-> << >>,  \* what the step had published when ESP.restart() was called
    after   |-> "none",    \* setup() ran: what had ended the boot before it
    passed  |-> << >>,     \* <<t>>: handleTick was called with the level t
    reads   |-> << >>,     \* what the digitalRead calls of getTick returned
    cold    |-> FALSE ]    \* setup() ran, for the first time since a loss of
                           \* power or once more after the first-boot reset

\* The machine as the code of one step sees it: RAM, EEPROM, what it published
\* so far, which of the publishes of the step the broker connection lets down
\* (fails: their positions among the publishes of the step), whether the flash
\* refuses the writes of the step (wear: EEPROM.commit() returns false and the
\* cells keep what they held) and what it did so far.
Cur ==
  [ eeSettings       |-> eeSettings,
    eeCount          |-> eeCount,
    settings         |-> settings,
    settingsAreValid |-> settingsAreValid,
    lastReportTime   |-> lastReportTime,
    finalReportSent  |-> finalReportSent,
    lastTick         |-> lastTick,
    pulseCount       |-> pulseCount,
    liters           |-> liters,
    lastPulseTime    |-> lastPulseTime,
    pulsePeriod      |-> pulsePeriod,
    out              |-> << >>,
    fails            |-> {},
    wear             |-> FALSE,
    ev               |-> NoEvent ]

(***************************************************************************)
(* Persistence.                                                            *)
(***************************************************************************)
\* the test of saveSettings: everything is filled in (the two tests of the
\* broker user and password are commented out in the source)
\* a fault seeded in the test: the port is not looked at
SettingsCompleteNoPort(s) ==
  /\ s.ssid # ""
  /\ s.wifiPassword # ""
  /\ s.mqttBrokerAddress # ""
  /\ s.mqttTopicRoot # ""
  /\ s.pulsesPerLiter # 0

SettingsComplete(s) ==
  /\ s.ssid # ""
  /\ s.wifiPassword # ""
  /\ s.mqttBrokerAddress # ""
  /\ s.mqttBrokerPort # 0
  /\ s.mqttTopicRoot # ""
  /\ s.pulsesPerLiter # 0

\* a fault seeded in saveSettings: EEPROM.put is left out
saveSettingsNoPut(m) ==
  LET ok == SettingsComplete(m.settings)
      s  == [m.settings EXCEPT !.validConfig = IF ok THEN VALID_SETTINGS_FLAG ELSE 0]
  IN  [m EXCEPT !.settings = s,
                !.settingsAreValid = ok,
                !.ev.saved = TRUE,
                !.ev.valid = ok]

saveSettings(m) ==
  LET ok == SettingsComplete(m.settings)
      s  == [m.settings EXCEPT !.validConfig = IF ok THEN VALID_SETTINGS_FLAG ELSE 0]
  IN  [m EXCEPT !.settings = s,
                !.settingsAreValid = ok,
                !.eeSettings = IF m.wear THEN @ ELSE s,
                !.ev.lost = IF m.wear THEN @ + 1 ELSE @,
                !.ev.saved = TRUE,
                !.ev.valid = ok]

loadSettings(m) ==
  [m EXCEPT !.settings = m.eeSettings,
            !.settingsAreValid = (m.eeSettings.validConfig = VALID_SETTINGS_FLAG)]

\* a fault seeded in storePulseCount: EEPROM.put is left out
storePulseCountNoPut(m) ==
  [m EXCEPT !.ev.stored = TRUE]

storePulseCount(m) ==
  [m EXCEPT !.eeCount = IF m.wear THEN @ ELSE m.pulseCount,
            !.ev.lost = IF m.wear THEN @ + 1 ELSE @,
            !.ev.stored = TRUE]

\* a fault seeded in readPulseCount: EEPROM.get is left out
readPulseCountNoGet(m) ==
  m

readPulseCount(m) ==
  [m EXCEPT !.pulseCount = m.eeCount]

\* a fault seeded in initializeSettings: pulseCount=0 is left out
initializeSettingsKeepCount(m) ==
  [m EXCEPT !.settings = StructDefaults, !.ev.reset = TRUE]

initializeSettings(m) ==
  [m EXCEPT !.settings = StructDefaults, !.pulseCount = 0, !.ev.reset = TRUE]

\* a fault seeded at the calls of ESP.restart(): the call is left out
restartLeftOut(m, from) ==
  m

\* ESP.restart() does not return to its caller
restart(m, from) ==
  [m EXCEPT !.ev.restart = from,
            !.ev.atRestart = <<m.settings, m.pulseCount>>,
            !.ev.sentBefore = m.out]

showSettings(m) ==
  [m EXCEPT !.ev.dump = TRUE]

(***************************************************************************)
(* Reporting.                                                              *)
(***************************************************************************)
Num(n) == [num |-> n]

Txt(s) == [txt |-> s]

\* sprintf(reading,"%.1f",liters): tenths, rounded to nearest; -1 stands for
\* the non-finite quotient by zero
Tenths(l) ==
  IF l.den <= 0 THEN -1 ELSE (20 * l.num + l.den) \div (2 * l.den)

\* publish(topic, reading): the topic is the topic root and a suffix; ok is
\* what mqttClient.publish returns
publish(m, suffix, reading) ==
  [m EXCEPT !.out = Append(@, [root    |-> m.settings.mqttTopicRoot,
                               suffix  |-> suffix,
                               reading |-> reading,
                               ok      |-> (Len(m.out) + 1) \notin m.fails])]

\* a fault seeded in report: a failed publish ends the report
reportUntilFailure(m) ==
  LET a == publish(m, "MQTT_TOPIC_RAW", Num(m.pulseCount))
      b == publish(a, "MQTT_TOPIC_LITERS", [tenths |-> Tenths(m.liters)])
  IN  IF ~a.out[Len(a.out)].ok THEN a
      ELSE IF ~b.out[Len(b.out)].ok THEN b
      ELSE publish(b, "MQTT_TOPIC_PERIOD", Num(m.pulsePeriod))

report(m) ==
  LET a == publish(m, "MQTT_TOPIC_RAW", Num(m.pulseCount))
      b == publish(a, "MQTT_TOPIC_LITERS", [tenths |-> Tenths(m.liters)])
  IN  publish(b, "MQTT_TOPIC_PERIOD", Num(m.pulsePeriod))

(***************************************************************************)
(* Edge detection and the accumulator.                                     *)
(***************************************************************************)
\* getTick: r1, r2, r3 are the levels the three digitalRead calls would return
\* a fault seeded in getTick: the third read is left out
getTickNoThird(r1, r2, r3) ==
  IF r2 # r1 THEN r2 ELSE r1

getTick(r1, r2, r3) ==
  IF r2 # r1 THEN r3 ELSE r1

\* a fault seeded in the test of tickEvent: >= for >
PeriodicDueInclusive(m, cts) ==
  Above(Sub32(cts, m.lastReportTime), REPORT_FREQ - 1)

\* a fault seeded in the test of tickEvent: the timestamp is compared with
\* lastReportTime+REPORT_FREQ
PeriodicDueAbsolute(m, cts) ==
  Below(m.lastReportTime + REPORT_FREQ, cts)

PeriodicDue(m, cts) ==
  Above(Sub32(cts, m.lastReportTime), REPORT_FREQ)

\* a fault seeded in tickEvent: the periodic report leaves lastReportTime
tickEventKeepsReportTime(m, cts) ==
  LET c == Inc32(m.pulseCount)
      a == [m EXCEPT !.pulsePeriod = Sub32(cts, m.lastPulseTime),
                     !.pulseCount = c,
                     !.liters = Quot(c, m.settings.pulsesPerLiter),
                     !.ev.divided = TRUE,
                     !.ev.rising = TRUE]
  IN  IF PeriodicDue(a, cts)
        THEN LET r == report(a)
             IN  storePulseCount([r EXCEPT !.finalReportSent = FALSE,
                                           !.ev.reports = Append(@, "periodic")])
        ELSE a

\* a fault seeded in tickEvent: the period is taken from the last report
tickEventSinceReport(m, cts) ==
  LET c == Inc32(m.pulseCount)
      a == [m EXCEPT !.pulsePeriod = Sub32(cts, m.lastReportTime),
                     !.pulseCount = c,
                     !.liters = Quot(c, m.settings.pulsesPerLiter),
                     !.ev.divided = TRUE,
                     !.ev.rising = TRUE]
  IN  IF PeriodicDue(a, cts)
        THEN LET r == report(a)
             IN  storePulseCount([r EXCEPT !.lastReportTime = cts,
                                           !.finalReportSent = FALSE,
                                           !.ev.reports = Append(@, "periodic")])
        ELSE a

\* a fault seeded in tickEvent: the counter is stored at every pulse
tickEventStoreEach(m, cts) ==
  LET c == Inc32(m.pulseCount)
      a == storePulseCount([m EXCEPT !.pulsePeriod = Sub32(cts, m.lastPulseTime),
                                     !.pulseCount = c,
                                     !.liters = Quot(c, m.settings.pulsesPerLiter),
                                     !.ev.divided = TRUE,
                                     !.ev.rising = TRUE])
  IN  IF PeriodicDue(a, cts)
        THEN LET r == report(a)
             IN  storePulseCount([r EXCEPT !.lastReportTime = cts,
                                           !.finalReportSent = FALSE,
                                           !.ev.reports = Append(@, "periodic")])
        ELSE a

tickEvent(m, cts) ==
  LET c == Inc32(m.pulseCount)
      a == [m EXCEPT !.pulsePeriod = Sub32(cts, m.lastPulseTime),
                     !.pulseCount = c,
                     !.liters = Quot(c, m.settings.pulsesPerLiter),
                     !.ev.divided = TRUE,
                     !.ev.rising = TRUE]
  IN  IF PeriodicDue(a, cts)
        THEN LET r == report(a)
             IN  storePulseCount([r EXCEPT !.lastReportTime = cts,
                                           !.finalReportSent = FALSE,
                                           !.ev.reports = Append(@, "periodic")])
        ELSE a

\* a fault seeded in the test of handleTick: the elapsed time is not looked at
DrainDueNoWait(m, ts) ==
  ~m.finalReportSent

\* a fault seeded in the test of handleTick: finalReportSent is not looked at
DrainDueNoFlag(m, ts) ==
  Above(Sub32(ts, m.lastReportTime), REPORT_FREQ * 3)

DrainDue(m, ts) ==
  ~m.finalReportSent /\ Above(Sub32(ts, m.lastReportTime), REPORT_FREQ * 3)

\* the final report of handleTick
drainReport(m, ts) ==
  LET r == report(m)
  IN  storePulseCount([r EXCEPT !.lastReportTime = ts,
                                !.finalReportSent = TRUE,
                                !.ev.reports = Append(@, "drain")])

\* a fault seeded in handleTick: both edges of the pulse are processed
handleTickBothEdges(m, tick, ts) ==
  LET a == IF tick # m.lastTick
             THEN [tickEvent([m EXCEPT !.lastTick = tick], ts)
                     EXCEPT !.lastPulseTime = ts, !.finalReportSent = FALSE]
             ELSE m
  IN  IF DrainDue(a, ts) THEN drainReport(a, ts) ELSE a

\* a fault seeded in handleTick: the final report does not store the counter
handleTickDrainNoStore(m, tick, ts) ==
  LET a == IF tick # m.lastTick
             THEN LET b == [m EXCEPT !.lastTick = tick]
                  IN  IF tick
                        THEN [tickEvent(b, ts) EXCEPT !.lastPulseTime = ts,
                                                      !.finalReportSent = FALSE]
                        ELSE b
             ELSE m
  IN  IF DrainDue(a, ts)
        THEN [drainReport(a, ts) EXCEPT !.eeCount = a.eeCount]
        ELSE a

\* a fault seeded in handleTick: a pulse does not clear finalReportSent
handleTickNoArm(m, tick, ts) ==
  LET a == IF tick # m.lastTick
             THEN LET b == [m EXCEPT !.lastTick = tick]
                  IN  IF tick
                        THEN [tickEvent(b, ts) EXCEPT !.lastPulseTime = ts,
                                                      !.finalReportSent = m.finalReportSent]
                        ELSE b
             ELSE m
  IN  IF DrainDue(a, ts) THEN drainReport(a, ts) ELSE a

\* a fault seeded in handleTick: every high level is taken for a pulse
handleTickEveryHigh(m, tick, ts) ==
  LET b == [m EXCEPT !.lastTick = tick]
      a == IF tick
             THEN [tickEvent(b, ts) EXCEPT !.lastPulseTime = ts,
                                           !.finalReportSent = FALSE]
             ELSE b
  IN  IF DrainDue(a, ts) THEN drainReport(a, ts) ELSE a

\* a fault seeded in handleTick: the trailing edge of a pulse clears
\* finalReportSent too
handleTickFallArms(m, tick, ts) ==
  LET a == IF tick # m.lastTick
             THEN LET b == [m EXCEPT !.lastTick = tick]
                  IN  IF tick
                        THEN [tickEvent(b, ts) EXCEPT !.lastPulseTime = ts,
                                                      !.finalReportSent = FALSE]
                        ELSE [b EXCEPT !.finalReportSent = FALSE]
             ELSE m
  IN  IF DrainDue(a, ts) THEN drainReport(a, ts) ELSE a

handleTick(m, tick, ts) ==
  LET a == IF tick # m.lastTick
             THEN LET b == [m EXCEPT !.lastTick = tick]
                  IN  IF tick
                        THEN [tickEvent(b, ts) EXCEPT !.lastPulseTime = ts,
                                                      !.finalReportSent = FALSE]
                        ELSE b
             ELSE m
  IN  IF DrainDue(a, ts) THEN drainReport(a, ts) ELSE a

(***************************************************************************)
(* The console protocol.  A line is a sequence of pieces: the separator    *)
(* "=" or a run of other characters, given as its text and whether a       *)
(* carriage return (character 13) ends it.                                 *)
(***************************************************************************)
EQ == [text |-> "=", cr |-> FALSE]

W(t) == [text |-> t, cr |-> FALSE]

WCR(t) == [text |-> t, cr |-> TRUE]

\* the tokens strtok(str,"=") yields one after the other: the runs between
\* separators, leading and repeated separators skipped
RECURSIVE Tokens(_)
Tokens(line) ==
  IF line = << >> THEN << >>
  ELSE IF Head(line) = EQ THEN Tokens(Tail(line))
  ELSE <<Head(line)>> \o Tokens(Tail(line))

\* atoi(val) on the values the model enters; a text that starts with no digit gives 0
atoi(t) ==
  CASE t = "1883" -> 1883
    [] t = "-1"   -> -1
    [] OTHER      -> 0

\* atof(val) on the values the model enters; a text that starts with no digit gives 0
atof(t) ==
  CASE t = "363" -> 363
    [] OTHER     -> 0

\* saveSettings(); if (settingsAreValid) ESP.restart();
\* a fault seeded in processCommand: the restart does not wait for valid settings
SaveAndRestartAlways(m) ==
  restart(saveSettings(m), "settings")

SaveAndRestartIfValid(m) ==
  LET a == saveSettings(m)
  IN  IF a.settingsAreValid THEN restart(a, "settings") ELSE a

processCommand(m, cmd) ==
  LET tok     == Tokens(cmd)
      nmeNull == Len(tok) = 0
      valNull == Len(tok) < 2
      nme     == tok[1]
      \* the carriage return at the end of val is cut off; nme keeps its own
      val     == tok[2].text
      is(n)   == nme = W(n)
  IN  IF nmeNull \/ valNull \/ val = ""
        THEN showSettings(m)
      ELSE IF is("broker")
        THEN SaveAndRestartIfValid([m EXCEPT !.settings.mqttBrokerAddress = val])
      ELSE IF is("port")
        THEN SaveAndRestartIfValid([m EXCEPT !.settings.mqttBrokerPort = atoi(val)])
      ELSE IF is("topicRoot")
        THEN SaveAndRestartIfValid([m EXCEPT !.settings.mqttTopicRoot = val])
      ELSE IF is("user")
        THEN SaveAndRestartIfValid([m EXCEPT !.settings.mqttUsername = val])
      ELSE IF is("pass")
        THEN SaveAndRestartIfValid([m EXCEPT !.settings.mqttPassword = val])
      ELSE IF is("ssid")
        THEN SaveAndRestartIfValid([m EXCEPT !.settings.ssid = val])
      ELSE IF is("wifipass")
        THEN SaveAndRestartIfValid([m EXCEPT !.settings.wifiPassword = val])
      ELSE IF is("pulsesPerLiter")
        THEN SaveAndRestartIfValid([m EXCEPT !.settings.pulsesPerLiter = atof(val)])
      ELSE IF is("reboot") /\ val = "yes"
        THEN restart(m, "reboot")
      ELSE IF is("resetPulses") /\ val = "yes"
        THEN storePulseCount([m EXCEPT !.pulseCount = 0, !.ev.reset = TRUE])
      ELSE IF is("factorydefaults") /\ val = "yes"
        THEN restart(storePulseCount(saveSettings(initializeSettings(m))), "factorydefaults")
      ELSE showSettings(m)

\* checkForCommand() with the line that serialEvent and getConfigCommand hand
\* over: an empty one is not processed at all
checkForCommand(m, line) ==
  IF line = << >> THEN m ELSE processCommand(m, line)

(***************************************************************************)
(* The remote command responder.                                           *)
(***************************************************************************)
mqttResetPulseCounter(m) ==
  storePulseCount([m EXCEPT !.pulseCount = 0, !.ev.reset = TRUE])

\* a fault seeded in getMqttStatus: the forced report counts as the drain
\* report
getMqttStatusAsDrain(m) ==
  LET a == IF IsZeroLiters(m.liters)
             THEN [m EXCEPT !.liters = Quot(m.pulseCount, m.settings.pulsesPerLiter),
                            !.ev.divided = TRUE]
             ELSE m
  IN  [report(a) EXCEPT !.ev.reports = Append(@, "status"),
                        !.finalReportSent = TRUE]

getMqttStatus(m) ==
  LET a == IF IsZeroLiters(m.liters)
             THEN [m EXCEPT !.liters = Quot(m.pulseCount, m.settings.pulsesPerLiter),
                            !.ev.divided = TRUE]
             ELSE m
  IN  [report(a) EXCEPT !.ev.reports = Append(@, "status")]

\* the payloads the handler compares with
Commands ==
  { "MQTT_PAYLOAD_SETTINGS_COMMAND", "MQTT_PAYLOAD_RESET_PULSE_COMMAND",
    "MQTT_PAYLOAD_VERSION_COMMAND", "MQTT_PAYLOAD_STATUS_COMMAND",
    "MQTT_PAYLOAD_REBOOT_COMMAND" }

\* An inbound payload is given as the bytes before its first zero byte (text),
\* whether it goes on after a zero byte (more) and whether text is 100 bytes
\* or more (long).  payload[length]='\0' makes text the string that strcmp and
\* sprintf(charbuf,"%s",payload) see.
\*
\* mqttResetPulseCounter and getMqttSettings return the address of a local
\* array, and a text of 100 bytes or more overruns charbuf[100]: what is then
\* read is the intended bytes or whatever the stack holds by then; intact says
\* which.
\*
\* a fault seeded in incomingMqttHandler: the device answers its own marker
incomingMqttHandlerNoGuard(m, payload, intact) ==
  LET sound == intact \/ ~payload.long
      topic == IF sound THEN payload.text ELSE "<overrun>"
      respond(a, response) == publish(a, topic, IF sound THEN Txt(response)
                                                         ELSE Txt("<stale stack>"))
      stale(text) == IF intact THEN text ELSE "<stale stack>"
  IN  IF payload.text = "MQTT_PAYLOAD_SETTINGS_COMMAND"
        THEN publish(m, topic, IF intact THEN [json |-> m.settings]
                                         ELSE Txt("<stale stack>"))
      ELSE IF payload.text = "MQTT_PAYLOAD_RESET_PULSE_COMMAND"
        THEN respond(mqttResetPulseCounter(m), stale("OK"))
      ELSE IF payload.text = "MQTT_PAYLOAD_VERSION_COMMAND"
        THEN respond(m, "VERSION")
      ELSE IF payload.text = "MQTT_PAYLOAD_STATUS_COMMAND"
        THEN respond(getMqttStatus(m), "Status report complete")
      ELSE IF payload.text = "MQTT_PAYLOAD_REBOOT_COMMAND"
        THEN restart(respond(m, "REBOOTING"), "mqtt")
      ELSE respond(m, "(empty)")

\* a fault seeded in incomingMqttHandler: no restart when the acknowledgment
\* could not be published
incomingMqttHandlerIfAcked(m, payload, intact) ==
  LET sound == intact \/ ~payload.long
      topic == IF sound THEN payload.text ELSE "<overrun>"
      respond(a, response) == publish(a, topic, IF sound THEN Txt(response)
                                                         ELSE Txt("<stale stack>"))
      stale(text) == IF intact THEN text ELSE "<stale stack>"
  IN  IF payload.text = "MQTT_TOPIC_COMMAND_REQUEST"
        THEN m
      ELSE IF payload.text = "MQTT_PAYLOAD_SETTINGS_COMMAND"
        THEN publish(m, topic, IF intact THEN [json |-> m.settings]
                                         ELSE Txt("<stale stack>"))
      ELSE IF payload.text = "MQTT_PAYLOAD_RESET_PULSE_COMMAND"
        THEN respond(mqttResetPulseCounter(m), stale("OK"))
      ELSE IF payload.text = "MQTT_PAYLOAD_VERSION_COMMAND"
        THEN respond(m, "VERSION")
      ELSE IF payload.text = "MQTT_PAYLOAD_STATUS_COMMAND"
        THEN respond(getMqttStatus(m), "Status report complete")
      ELSE IF payload.text = "MQTT_PAYLOAD_REBOOT_COMMAND"
        THEN LET a == respond(m, "REBOOTING")
             IN  IF a.out[Len(a.out)].ok THEN restart(a, "mqtt") ELSE a
      ELSE respond(m, "(empty)")

incomingMqttHandler(m, payload, intact) ==
  LET sound == intact \/ ~payload.long
      topic == IF sound THEN payload.text ELSE "<overrun>"
      respond(a, response) == publish(a, topic, IF sound THEN Txt(response)
                                                         ELSE Txt("<stale stack>"))
      stale(text) == IF intact THEN text ELSE "<stale stack>"
  IN  IF payload.text = "MQTT_TOPIC_COMMAND_REQUEST"
        THEN m
      ELSE IF payload.text = "MQTT_PAYLOAD_SETTINGS_COMMAND"
        THEN publish(m, topic, IF intact THEN [json |-> m.settings]
                                         ELSE Txt("<stale stack>"))
      ELSE IF payload.text = "MQTT_PAYLOAD_RESET_PULSE_COMMAND"
        THEN respond(mqttResetPulseCounter(m), stale("OK"))
      ELSE IF payload.text = "MQTT_PAYLOAD_VERSION_COMMAND"
        THEN respond(m, "VERSION")
      ELSE IF payload.text = "MQTT_PAYLOAD_STATUS_COMMAND"
        THEN respond(getMqttStatus(m), "Status report complete")
      ELSE IF payload.text = "MQTT_PAYLOAD_REBOOT_COMMAND"
        THEN restart(respond(m, "REBOOTING"), "mqtt")
      ELSE respond(m, "(empty)")

(***************************************************************************)
(* Boot.                                                                   *)
(***************************************************************************)
\* setup() from loadSettings to readPulseCount
\* a fault seeded in setup: the zeroed counter is not stored
setupNoStore(m) ==
  LET a == loadSettings(m)
  IN  IF a.settings.mqttBrokerPort < 0
        THEN restart(saveSettings(initializeSettings(a)), "firstboot")
        ELSE readPulseCount(a)

setup(m) ==
  LET a == loadSettings(m)
  IN  IF a.settings.mqttBrokerPort < 0
        THEN restart(storePulseCount(saveSettings(initializeSettings(a))), "firstboot")
        ELSE readPulseCount(a)

(***************************************************************************)
(* What the environment supplies.                                          *)
(***************************************************************************)
Line(n, v) == <<W(n), EQ, W(v)>>

\* the console lines
Lines ==
  { Line(n, "x") : n \in {"broker", "topicRoot", "user", "pass", "ssid", "wifipass"} }
    \cup { Line("port", v) : v \in {"1883", "0", "-1"} }
    \cup { Line("pulsesPerLiter", v) : v \in {"363", "0"} }
    \cup { Line(n, "yes") : n \in {"reboot", "resetPulses", "factorydefaults"} }
    \cup { Line(n, "no") : n \in {"reboot", "resetPulses", "factorydefaults"} }
    \cup { Line("bogus", "x"),
           <<W("broker"), EQ>>, <<W("broker")>>, <<EQ, W("x")>>, << >>, <<EQ>>,
           <<EQ, W("broker"), EQ, W("x")>>,
           <<W("broker"), EQ, WCR("")>>, <<W("ssid"), EQ, WCR("x")>> }

\* the lines the console is given: all of them but the ones for the two
\* settings that no test of the program looks at, which processCommand stores
\* as it stores the others
Typed == Lines \ {Line("user", "x"), Line("pass", "x")}

\* a payload that is the text t and nothing else
Payload(t) == [text |-> t, more |-> FALSE, long |-> FALSE]

\* the payloads that arrive on the command topic: the marker, the commands,
\* one that is none of them, a command with a zero byte and more after it,
\* and one of 100 bytes without a zero byte
Payloads ==
  { Payload(t) : t \in {"MQTT_TOPIC_COMMAND_REQUEST", "bogus"} \cup Commands }
    \cup { [text |-> "MQTT_PAYLOAD_VERSION_COMMAND", more |-> TRUE, long |-> FALSE],
           [text |-> "bogus100", more |-> FALSE, long |-> TRUE] }

\* what getTick() may return: its result for every three levels the
\* digitalRead calls may find
Sampled == { getTick(r1, r2, r3) : r1, r2, r3 \in BOOLEAN }

\* which publishes of a step the broker connection lets down: none, or the
\* first one
Outages == { {}, {1} }

\* milliseconds between two successive reads of millis() by handleTick (the
\* first read of a boot counts from the boot): the next millisecond, exactly
\* the report interval, just over three report intervals
Deltas == {1, REPORT_FREQ, 3 * REPORT_FREQ + 1}

\* what the EEPROM of a device that never ran this firmware may hold: any
\* record that does not carry the sentinel, and any counter
FreshSettings ==
  { [ validConfig       |-> v,
      ssid              |-> t,
      wifiPassword      |-> t,
      mqttBrokerAddress |-> t,
      mqttBrokerPort    |-> p,
      mqttUsername      |-> t,
      mqttPassword      |-> t,
      mqttTopicRoot     |-> t,
      pulsesPerLiter    |-> DEFAULT_PULSES_PER_LITER ] :
    v \in {0, UMax}, t \in {"", "x"}, p \in {-1, DEFAULT_PORT} }

FreshCounts == {0, UMax}

(***************************************************************************)
(* The state machine.                                                      *)
(***************************************************************************)
\* a fault seeded in the initializers: finalReportSent starts false
BootRamArmed ==
  /\ settings' = StructDefaults
  /\ settingsAreValid' = FALSE
  /\ lastReportTime' = 0
  /\ finalReportSent' = FALSE
  /\ lastTick' = FALSE
  /\ pulseCount' = 0
  /\ liters' = ZeroLiters
  /\ lastPulseTime' = 0
  /\ pulsePeriod' = 0
  /\ pc' = "setup"
  /\ now' = 0
  /\ ticks' = 0
  /\ inputs' = 0
  /\ lastPub' = << >>
  /\ drains' = 0
  /\ unrep' = 0
  /\ riseAt' = 0
  /\ lowSince' = TRUE

\* the globals as their initializers leave them
BootRam ==
  /\ settings' = StructDefaults
  /\ settingsAreValid' = FALSE
  /\ lastReportTime' = 0
  /\ finalReportSent' = TRUE
  /\ lastTick' = FALSE
  /\ pulseCount' = 0
  /\ liters' = ZeroLiters
  /\ lastPulseTime' = 0
  /\ pulsePeriod' = 0
  /\ pc' = "setup"
  /\ now' = 0
  /\ ticks' = 0
  /\ inputs' = 0
  /\ lastPub' = << >>
  /\ drains' = 0
  /\ unrep' = 0
  /\ riseAt' = 0
  /\ lowSince' = TRUE

IsSched(k) == k \in {"periodic", "drain"}

IsDrain(k) == k = "drain"

\* the reports of a step that handleTick made
SchedReports(e) == SelectSeq(e.reports, IsSched)

DrainReports(e) == SelectSeq(e.reports, IsDrain)

LastTwo(q) == IF Len(q) <= 2 THEN q ELSE SubSeq(q, Len(q) - 1, Len(q))

\* the step ends with the machine as m: control goes on at nextpc, unless the
\* step called ESP.restart()
Commit(m, nextpc, n, t, c) ==
  /\ eeSettings' = m.eeSettings
  /\ eeCount' = m.eeCount
  /\ UNCHANGED <<flash, raw, at>>
  /\ out' = m.out
  /\ ev' = m.ev
  /\ consoleSaved' = IF m.ev.saved /\ m.ev.restart # "firstboot"
                        THEN <<[settings |-> m.settings, valid |-> m.settingsAreValid]>>
                        ELSE consoleSaved
  /\ IF m.ev.restart # "none"
       THEN BootRam
       ELSE /\ settings' = m.settings
            /\ settingsAreValid' = m.settingsAreValid
            /\ lastReportTime' = m.lastReportTime
            /\ finalReportSent' = m.finalReportSent
            /\ lastTick' = m.lastTick
            /\ pulseCount' = m.pulseCount
            /\ liters' = m.liters
            /\ lastPulseTime' = m.lastPulseTime
            /\ pulsePeriod' = m.pulsePeriod
            /\ pc' = nextpc
            /\ now' = n
            /\ ticks' = t
            /\ inputs' = c
            /\ lastPub' = LastTwo(lastPub \o [i \in 1 .. Len(SchedReports(m.ev)) |-> n])
            /\ drains' = (IF m.ev.rising THEN 0 ELSE drains) + Len(DrainReports(m.ev))
            /\ unrep' = IF m.ev.reports # << >> \/ m.ev.reset THEN 0
                         ELSE IF m.ev.rising THEN unrep + 1
                         ELSE unrep
            /\ riseAt' = IF m.ev.rising THEN n ELSE riseAt
            /\ lowSince' = IF m.ev.rising THEN FALSE
                            ELSE IF m.ev.passed = <<FALSE>> THEN TRUE
                            ELSE lowSince

Init ==
  /\ eeSettings \in FreshSettings
  /\ eeCount \in FreshCounts
  /\ settings = StructDefaults
  /\ settingsAreValid = FALSE
  /\ lastReportTime = 0
  /\ finalReportSent = TRUE
  /\ lastTick = FALSE
  /\ pulseCount = 0
  /\ liters = ZeroLiters
  /\ lastPulseTime = 0
  /\ pulsePeriod = 0
  /\ pc = "setup"
  /\ now = 0
  /\ ticks = 0
  /\ inputs = 0
  /\ out = << >>
  /\ ev = NoEvent
  /\ lastPub = << >>
  /\ drains = 0
  /\ unrep = 0
  /\ consoleSaved = << >>
  /\ riseAt = 0
  /\ lowSince = TRUE
  /\ flash = << >>
  /\ raw = << >>
  /\ at = 0

\* setup() up to the network part
Boot ==
  /\ pc = "setup"
  /\ LET m == setup([Cur EXCEPT !.ev.after = ev.restart,
                                 !.ev.cold = IF ev.restart = "firstboot"
                                               THEN ev.cold
                                               ELSE ev.restart = "power"])
     IN  Commit(m, IF m.settingsAreValid THEN "wifi" ELSE "setupEnd", now, ticks, inputs)

\* checkForCommand() with a complete line waiting
Console(line, nextpc) ==
  /\ inputs < MaxInputs
  /\ Commit(checkForCommand(Cur, line), nextpc, now, ticks, inputs + 1)

\* one round of the wait for the network in setup(), a line waiting
WifiWait ==
  /\ pc = "wifi"
  /\ \E line \in Typed : Console(line, "wifi")

WifiConnected ==
  /\ pc = "wifi"
  /\ Commit(Cur, "setupReconnect", now, ticks, inputs)

\* a fault seeded in reconnect: a failed attempt restarts the device
ReconnectRetryFatal ==
  /\ pc \in {"setupReconnect", "reconnect"}
  /\ Commit(restart(Cur, "reconnect"), pc, now, ticks, inputs)

\* reconnect(): a failed attempt, a line waiting
ReconnectRetry ==
  /\ pc \in {"setupReconnect", "reconnect"}
  /\ \E line \in Typed : Console(line, pc)

\* the end of setup(): reconnect() is through if it was entered, then
\* lastTick=getTick()
SetupEnd ==
  /\ pc \in {"setupReconnect", "setupEnd"}
  /\ \E t \in Sampled :
       Commit([Cur EXCEPT !.lastTick = t], "loop", now, ticks, inputs)

\* loop(): checkForCommand() with a line waiting, then the test of settingsAreValid
LoopCommand ==
  /\ pc = "loop"
  /\ \E line \in Typed :
       LET m == checkForCommand(Cur, line)
       IN  /\ inputs < MaxInputs
           /\ Commit(m, IF m.settingsAreValid THEN "reconnect" ELSE "loop",
                     now, ticks, inputs + 1)

\* loop(): no line waiting, settings valid: reconnect() is entered
LoopEnter ==
  /\ pc = "loop"
  /\ settingsAreValid
  /\ Commit(Cur, "reconnect", now, ticks, inputs)

\* reconnect() is through; mqttClient.loop() delivers a message of the command topic
MqttMessage ==
  /\ pc = "reconnect"
  /\ inputs < MaxInputs
  /\ \E payload \in Payloads, intact \in BOOLEAN, f \in Outages :
       Commit(incomingMqttHandler([Cur EXCEPT !.fails = f], payload, intact),
              "tick", now, ticks, inputs + 1)

\* reconnect() and mqttClient.loop() are through (nothing to deliver if control
\* is still in reconnect); boolean t=getTick(); handleTick(t);
Tick ==
  /\ pc \in {"reconnect", "tick"}
  /\ ticks < MaxTicks
  /\ \E t \in Sampled, d \in Deltas, f \in Outages :
       LET ts == now + d
       IN  /\ (t /\ ~lastTick) => pulseCount < MaxCount
           /\ Commit(handleTick([Cur EXCEPT !.ev.passed = <<t>>, !.fails = f], t, ts),
                     "loop", ts, ticks + 1, inputs)

\* power is lost and comes back
PowerCycle ==
  /\ pc # "setup"
  /\ BootRam
  /\ out' = << >>
  /\ ev' = [NoEvent EXCEPT !.restart = "power"]
  /\ UNCHANGED <<eeSettings, eeCount, consoleSaved, flash, raw, at>>

Next ==
  \/ Boot
  \/ WifiWait
  \/ WifiConnected
  \/ ReconnectRetry
  \/ SetupEnd
  \/ LoopCommand
  \/ LoopEnter
  \/ MqttMessage
  \/ Tick
  \/ PowerCycle

Spec == Init /\ [][Next]_vars

(***************************************************************************)
(* getTick on its own, run again and again over a waveform of the sensor   *)
(* line: each call reads the entry it stands on and the next one, and the  *)
(* one after that if the two differ; the next call starts on the entry the *)
(* last read fell on (no delay lies between two calls).                    *)
(***************************************************************************)
RawLines == [1 .. RawLen -> BOOLEAN]

SampleInit ==
  /\ eeSettings = StructDefaults
  /\ eeCount = 0
  /\ settings = StructDefaults
  /\ settingsAreValid = FALSE
  /\ lastReportTime = 0
  /\ finalReportSent = TRUE
  /\ lastTick = FALSE
  /\ pulseCount = 0
  /\ liters = ZeroLiters
  /\ lastPulseTime = 0
  /\ pulsePeriod = 0
  /\ pc = "getTick"
  /\ now = 0
  /\ ticks = 0
  /\ inputs = 0
  /\ out = << >>
  /\ ev = NoEvent
  /\ lastPub = << >>
  /\ drains = 0
  /\ unrep = 0
  /\ consoleSaved = << >>
  /\ riseAt = 0
  /\ lowSince = TRUE
  /\ flash = << >>
  /\ raw \in RawLines
  /\ at = 1

\* lastTick=getTick();
Sample ==
  /\ pc = "getTick"
  /\ at + 2 <= Len(raw)
  /\ lastTick' = getTick(raw[at], raw[at + 1], raw[at + 2])
  /\ IF raw[at + 1] # raw[at]
       THEN /\ at' = at + 2
            /\ ev' = [NoEvent EXCEPT !.reads = <<raw[at], raw[at + 1], raw[at + 2]>>]
       ELSE /\ at' = at + 1
            /\ ev' = [NoEvent EXCEPT !.reads = <<raw[at], raw[at + 1]>>]
  /\ UNCHANGED <<eeSettings, eeCount, settings, settingsAreValid, lastReportTime,
                 finalReportSent, pulseCount, liters, lastPulseTime, pulsePeriod,
                 pc, now, ticks, inputs, out, lastPub, drains, unrep,
                 consoleSaved, riseAt, lowSince, flash, raw>>

SampleNext == Sample

SampleSpec == SampleInit /\ [][SampleNext]_vars

(***************************************************************************)
(* The layout of the storage area.  EEPROM.begin opens an area of          *)
(* sizeof(settings)+sizeof(pulseCount) bytes; EEPROM.put copies the bytes  *)
(* of an object to an address of it.                                       *)
(***************************************************************************)
\* sizeof(settings), as the size of the opened area tells it
SizeofSettings == Len(flash) - SizeofCount

\* a fault seeded in pulseCountStorage: the counter starts on the last byte of
\* the settings
pulseCountStorageInside == SizeofSettings - 1

\* int pulseCountStorage=sizeof(settings);
pulseCountStorage == SizeofSettings

\* the values of the bytes written, and that of a byte never written
Bytes == {0, 1}

Erased == 255

\* the addresses an object of the given size takes at the given address
Region(address, size) == address .. address + size - 1

\* EEPROM.put(address, object): the bytes of the object (image) go to the
\* address and the addresses after it, if all of them are in the opened area
Put(f, address, image) ==
  IF address < 0 \/ address + Len(image) > Len(f)
    THEN f
    ELSE [i \in DOMAIN f |-> IF i - 1 \in Region(address, Len(image))
                               THEN image[i - address]
                               ELSE f[i]]

FlashInit ==
  /\ eeSettings = StructDefaults
  /\ eeCount = 0
  /\ settings = StructDefaults
  /\ settingsAreValid = FALSE
  /\ lastReportTime = 0
  /\ finalReportSent = TRUE
  /\ lastTick = FALSE
  /\ pulseCount = 0
  /\ liters = ZeroLiters
  /\ lastPulseTime = 0
  /\ pulsePeriod = 0
  /\ pc = "flash"
  /\ now = 0
  /\ ticks = 0
  /\ inputs = 0
  /\ out = << >>
  /\ ev = NoEvent
  /\ lastPub = << >>
  /\ drains = 0
  /\ unrep = 0
  /\ consoleSaved = << >>
  /\ riseAt = 0
  /\ lowSince = TRUE
  /\ flash \in { [i \in 1 .. n + SizeofCount |-> Erased] : n \in 1 .. MaxStruct }
  /\ raw = << >>
  /\ at = 0

\* EEPROM.put(0,settings); EEPROM.commit();
FlashSettings ==
  /\ pc = "flash"
  /\ \E image \in [1 .. SizeofSettings -> Bytes] : flash' = Put(flash, 0, image)
  /\ ev' = [NoEvent EXCEPT !.saved = TRUE]
  /\ UNCHANGED <<eeSettings, eeCount, ramVars, pc, now, ticks, inputs, out, lastPub,
                 drains, unrep, consoleSaved, riseAt, lowSince, raw, at>>

\* EEPROM.put(pulseCountStorage,pulseCount); EEPROM.commit();
FlashCount ==
  /\ pc = "flash"
  /\ \E image \in [1 .. SizeofCount -> Bytes] : flash' = Put(flash, pulseCountStorage, image)
  /\ ev' = [NoEvent EXCEPT !.stored = TRUE]
  /\ UNCHANGED <<eeSettings, eeCount, ramVars, pc, now, ticks, inputs, out, lastPub,
                 drains, unrep, consoleSaved, riseAt, lowSince, raw, at>>

FlashNext ==
  \/ FlashSettings
  \/ FlashCount

FlashSpec == FlashInit /\ [][FlashNext]_vars

(***************************************************************************)
(* The loop of a configured device whose millisecond clock is about to     *)
(* wrap from 2^32-1 to 0.                                                  *)
(***************************************************************************)
\* complete settings
Configured ==
  [StructDefaults EXCEPT !.validConfig = VALID_SETTINGS_FLAG,
                         !.ssid = "x",
                         !.wifiPassword = "x",
                         !.mqttBrokerAddress = "x",
                         !.mqttTopicRoot = "x"]

\* millis() when the observation starts: the last millisecond before the
\* wrap, one report interval before it, three report intervals before it
ClockStarts == { UMax - k : k \in {0, REPORT_FREQ, 3 * REPORT_FREQ} }

\* a pulse has just been counted and reported
ClockInit ==
  /\ eeSettings = Configured
  /\ eeCount = 1
  /\ settings = Configured
  /\ settingsAreValid = TRUE
  /\ now \in ClockStarts
  /\ lastReportTime = now
  /\ finalReportSent = FALSE
  /\ lastTick \in BOOLEAN
  /\ pulseCount = 1
  /\ liters = Quot(1, DEFAULT_PULSES_PER_LITER)
  /\ lastPulseTime = now
  /\ pulsePeriod = 0
  /\ pc = "reconnect"
  /\ ticks = 0
  /\ inputs = 0
  /\ out = << >>
  /\ ev = NoEvent
  /\ lastPub = <<now>>
  /\ drains = 0
  /\ unrep = 0
  /\ consoleSaved = << >>
  /\ riseAt = now
  /\ lowSince = FALSE
  /\ flash = << >>
  /\ raw = << >>
  /\ at = 0

ClockNext ==
  \/ LoopEnter
  \/ Tick

ClockSpec == ClockInit /\ [][ClockNext]_vars

(***************************************************************************)
(* Properties.                                                             *)
(***************************************************************************)
\* the step was a handleTick call that saw the filtered level rise
Rose == ticks' = ticks + 1 /\ ~lastTick /\ lastTick'

\* the step stayed within one boot: it was not setup() and no restart ended it
SameBoot == pc # "setup" /\ pc' # "setup"

\* C1 as stated: within one boot the pulse counter changes only by growing by
\* exactly 1 on a rising edge of the filtered level or by an explicit reset
\* setting it to 0; it never decreases otherwise.
C1_AsStated ==
  [][ SameBoot =>
        /\ Rose => pulseCount' = pulseCount + 1 /\ Below(pulseCount, pulseCount')
        /\ (~Rose /\ pulseCount' # pulseCount) => (ev'.reset /\ pulseCount' = 0) ]_vars

\* C1 amended: within one boot the pulse counter changes only by a rising edge
\* of the filtered level, which adds 1 modulo 2^32 (from 2^32-1 it wraps to 0),
\* or by an explicit reset, which sets it to 0.
C1_CounterSteps ==
  [][ SameBoot =>
        /\ Rose => pulseCount' = Inc32(pulseCount)
        /\ (~Rose /\ pulseCount' # pulseCount) => (ev'.reset /\ pulseCount' = 0) ]_vars

\* a rising edge has just wrapped the counter from 2^32-1 to 0
C1_Witness == ev.rising /\ ~ev.reset /\ pulseCount = 0 /\ unrep = 1

CommandRestarts == {"settings", "reboot", "factorydefaults", "mqtt", "firstboot"}

\* C2 as stated: wherever a restart is issued, the stored settings equal the
\* settings in memory and the stored pulse counter equals the one in memory.
C2_AsStated ==
  ev.restart \in CommandRestarts =>
    /\ ev.atRestart[1] = eeSettings
    /\ ev.atRestart[2] = eeCount

\* C2 amended: wherever a restart is issued, the stored settings equal the
\* settings in memory; the stored pulse counter equals the one in memory (both
\* are 0) for factorydefaults=yes and the first-boot reset.
C2_SettingsCommitted ==
  ev.restart \in CommandRestarts =>
    /\ ev.atRestart[1] = eeSettings
    /\ ev.restart \in {"factorydefaults", "firstboot"} =>
         ev.atRestart[2] = 0 /\ eeCount = 0

\* a settings command restarted the device while the counter in memory was
\* ahead of the stored one
C2_Witness ==
  /\ ev.restart = "settings"
  /\ ev.atRestart[1] = eeSettings
  /\ ev.atRestart[2] # eeCount

\* C3 as stated: on a rising edge at time now a periodic report is published
\* exactly when now - lastReportTime >= R; then lastReportTime = now, the
\* drain-sent flag is false and the stored counter equals the one in memory.
C3_AsStated ==
  [][ (SameBoot /\ Rose) =>
        /\ ("periodic" \in { ev'.reports[i] : i \in DOMAIN ev'.reports })
             <=> Above(Sub32(now', lastReportTime), REPORT_FREQ - 1)
        /\ ev'.reports = <<"periodic">> =>
             lastReportTime' = now' /\ ~finalReportSent' /\ eeCount' = pulseCount' ]_vars

\* C3 amended: on a rising edge at time now a periodic report is published
\* exactly when now - lastReportTime > R (at exactly R none is); then
\* lastReportTime = now, the drain-sent flag is false and the stored counter
\* equals the one in memory.
C3_PeriodicReport ==
  [][ (SameBoot /\ Rose) =>
        /\ ("periodic" \in { ev'.reports[i] : i \in DOMAIN ev'.reports })
             <=> Above(Sub32(now', lastReportTime), REPORT_FREQ)
        /\ ev'.reports = <<"periodic">> =>
             lastReportTime' = now' /\ ~finalReportSent' /\ eeCount' = pulseCount' ]_vars

\* a rising edge has just published a periodic report
C3_Witness ==
  /\ ev.rising
  /\ ev.reports = <<"periodic">>
  /\ Len(out) = 3
  /\ lastReportTime = now
  /\ eeCount = pulseCount

\* C4: within one boot any two consecutive reports of handleTick (periodic or
\* drain, in any order) are at least R apart.
C4_ReportSpacing ==
  Len(lastPub) = 2 => Above(Sub32(lastPub[2], lastPub[1]), REPORT_FREQ - 1)

\* handleTick has reported twice in this boot
C4_Witness == Len(lastPub) = 2 /\ lastPub[2] = now /\ ev.reports # << >>

\* C5: after a drain report no further drain report is published until a new
\* rising edge has occurred.
C5_OneDrain == drains <= 1

\* a tick was handled more than 3R after a drain report and published nothing
C5_Witness ==
  /\ drains = 1
  /\ finalReportSent
  /\ ev.reports = << >>
  /\ pc = "loop"
  /\ Above(Sub32(now, lastReportTime), 3 * REPORT_FREQ)

\* the step was a handleTick call
Ticked == ticks' = ticks + 1

\* the first of the three messages of the report published last
LastRaw(o) == o[Len(o) - 2]

\* C6 as stated: the drain report that follows the last pulse is the only one,
\* its published count equals the counter, the counter is stored with it, and
\* it is published within 3R of the last rising edge.
C6_AsStated ==
  ev.reports = <<"drain">> =>
    /\ drains = 1
    /\ LastRaw(out).suffix = "MQTT_TOPIC_RAW"
    /\ LastRaw(out).reading = Num(pulseCount)
    /\ eeCount = pulseCount
    /\ ~Above(Sub32(now, lastPulseTime), 3 * REPORT_FREQ)

\* C6 amended: with no rising edge after the last pulse, the drain report is
\* published by the first handleTick call at which more than 3R have passed
\* since the last report of handleTick (not since the last rising edge, from
\* which it is more than 2R away and as far as the ticks make it); it is the
\* only one, its published count equals the counter and the counter is stored
\* with it.
C6_DrainReport ==
  [][ (SameBoot /\ Ticked) =>
        /\ ("drain" \in { ev'.reports[i] : i \in DOMAIN ev'.reports })
             <=> /\ ~ev'.rising
                 /\ ~finalReportSent
                 /\ Above(Sub32(now', lastReportTime), 3 * REPORT_FREQ)
        /\ ("drain" \in { ev'.reports[i] : i \in DOMAIN ev'.reports }) =>
             /\ ev'.reports = <<"drain">>
             /\ drains' = 1
             /\ LastRaw(out').suffix = "MQTT_TOPIC_RAW"
             /\ LastRaw(out').reading = Num(pulseCount')
             /\ eeCount' = pulseCount'
             /\ finalReportSent'
             /\ lastReportTime' = now'
             /\ Above(Sub32(now', lastPulseTime'), 2 * REPORT_FREQ) ]_vars

\* the drain report has just been published, more than 3R after the last
\* rising edge
C6_Witness ==
  /\ ev.reports = <<"drain">>
  /\ drains = 1
  /\ pulseCount > 0
  /\ eeCount = pulseCount
  /\ Above(Sub32(now, lastPulseTime), 3 * REPORT_FREQ)

\* a report among the messages o gives c as the count
ReportedCount(o, c) ==
  \E i \in DOMAIN o : o[i].suffix = "MQTT_TOPIC_RAW" /\ o[i].reading = Num(c)

\* C7 as stated: while the device keeps running, restarts by command included,
\* the pulses counted and not yet reported stop being so only by a published
\* report whose count includes them or by an explicit reset.
C7_AsStated ==
  [][ (unrep > 0 /\ unrep' = 0) =>
        \/ ev'.reports # << >> /\ ReportedCount(out', pulseCount')
        \/ ev'.reset
        \/ ev'.restart = "power" ]_vars

\* C7 amended: within one boot, pulses counted and not yet reported keep the
\* drain report armed, and the first handleTick call without a rising edge at
\* which more than 3R have passed since the last report publishes them; they
\* stop being unreported only by a published report whose count includes them,
\* by an explicit reset, or by a restart (a settings command that leaves the
\* settings valid, reboot=yes, the remote reboot command, factorydefaults=yes)
\* or a loss of power, which discard them.
C7_PendingTail ==
  [][ /\ (SameBoot /\ unrep' > 0) => ~finalReportSent'
      /\ (SameBoot /\ Ticked /\ unrep > 0 /\ ~ev'.rising
            /\ Above(Sub32(now', lastReportTime), 3 * REPORT_FREQ)) =>
           ev'.reports = <<"drain">> /\ unrep' = 0
      /\ (unrep > 0 /\ unrep' = 0) =>
           \/ ev'.reports # << >> /\ ReportedCount(out', pulseCount')
           \/ ev'.reset
           \/ ev'.restart # "none" ]_vars

\* a pulse has just been counted without a report
C7_Witness ==
  /\ ev.rising
  /\ ev.reports = << >>
  /\ unrep > 0
  /\ ~finalReportSent
  /\ eeCount # pulseCount
  /\ pc = "loop"

\* C8 as stated: after saveSettings the stored sentinel is the reserved
\* constant exactly when all six strings (broker user and password among
\* them) are non-empty, the port is not 0 and the calibration constant is not
\* 0; the validity flag agrees with the sentinel.
C8_AsStated ==
  ev.saved =>
    /\ (eeSettings.validConfig = VALID_SETTINGS_FLAG)
         <=> /\ eeSettings.ssid # ""
             /\ eeSettings.wifiPassword # ""
             /\ eeSettings.mqttBrokerAddress # ""
             /\ eeSettings.mqttUsername # ""
             /\ eeSettings.mqttPassword # ""
             /\ eeSettings.mqttTopicRoot # ""
             /\ eeSettings.mqttBrokerPort # 0
             /\ eeSettings.pulsesPerLiter # 0
    /\ ev.valid <=> (eeSettings.validConfig = VALID_SETTINGS_FLAG)

\* C8 amended: after saveSettings the stored sentinel is the reserved constant
\* exactly when the network SSID and password, the broker address and the
\* topic root are non-empty, the port is not 0 and the calibration constant is
\* not 0 (the broker user and password may be empty); otherwise it is 0; the
\* validity flag agrees with the sentinel.
C8_Sentinel ==
  ev.saved =>
    /\ (eeSettings.validConfig = VALID_SETTINGS_FLAG)
         <=> /\ eeSettings.ssid # ""
             /\ eeSettings.wifiPassword # ""
             /\ eeSettings.mqttBrokerAddress # ""
             /\ eeSettings.mqttTopicRoot # ""
             /\ eeSettings.mqttBrokerPort # 0
             /\ eeSettings.pulsesPerLiter # 0
    /\ eeSettings.validConfig \in {VALID_SETTINGS_FLAG, 0}
    /\ ev.valid <=> (eeSettings.validConfig = VALID_SETTINGS_FLAG)

\* settings without a broker user and password have just been saved as valid
C8_Witness ==
  /\ ev.saved
  /\ ev.valid
  /\ eeSettings.validConfig = VALID_SETTINGS_FLAG
  /\ eeSettings.mqttUsername = ""
  /\ eeSettings.mqttPassword = ""

\* C9 as stated: at boot, a stored record whose sentinel differs from the
\* reserved constant makes the device store factory defaults and a zero
\* counter and restart.
C9_AsStated ==
  [][ (pc = "setup" /\ eeSettings.validConfig # VALID_SETTINGS_FLAG) =>
        /\ ev'.restart = "firstboot"
        /\ eeSettings' = StructDefaults
        /\ eeCount' = 0 ]_vars

\* C9 amended: at boot, exactly the stored records whose port is negative
\* (whatever the sentinel and the other fields hold) make the device store
\* factory defaults and a zero counter and restart; the boot after that
\* restart does not restart again and leaves the device unconfigured.  A
\* record whose port is not negative is loaded as it is, with the stored
\* counter, valid or not as its sentinel says, and nothing is written.
C9_FirstBoot ==
  [][ pc = "setup" =>
        /\ (ev'.restart = "firstboot") <=> (eeSettings.mqttBrokerPort < 0)
        /\ ev'.restart = "firstboot" =>
             /\ eeSettings' = StructDefaults
             /\ eeCount' = 0
             /\ pc' = "setup"
        /\ ev.restart = "firstboot" =>
             /\ ev'.restart = "none"
             /\ settings' = StructDefaults
             /\ ~settingsAreValid'
             /\ pulseCount' = 0
        /\ eeSettings.mqttBrokerPort >= 0 =>
             /\ ev'.restart = "none"
             /\ settings' = eeSettings
             /\ settingsAreValid' = (eeSettings.validConfig = VALID_SETTINGS_FLAG)
             /\ pulseCount' = eeCount
             /\ UNCHANGED <<eeSettings, eeCount>> ]_vars

\* the boot after the first-boot reset has gone through without a restart
C9_Witness ==
  /\ ev.after = "firstboot"
  /\ ev.restart = "none"
  /\ pc = "setupEnd"
  /\ settings = StructDefaults
  /\ eeSettings = StructDefaults
  /\ eeCount = 0

\* C10: the settings and the validity flag the console saved last are the
\* ones in memory after a loss of power and a complete boot.
C10_RoundTrip ==
  (ev.cold /\ pc # "setup" /\ consoleSaved # << >>) =>
    /\ settings = consoleSaved[1].settings
    /\ settingsAreValid = consoleSaved[1].valid

\* control is where checkForCommand() is called: the wait for the network in
\* setup(), the retry loop of reconnect(), the start of loop()
ConsoleOpen == pc \in {"wifi", "setupReconnect", "reconnect", "loop"}

SettingNames ==
  {"broker", "port", "topicRoot", "user", "pass", "ssid", "wifipass", "pulsesPerLiter"}

\* the lines name=value that name a setting and give a value
SettingLines ==
  { l \in Lines : /\ Len(l) = 3
                  /\ l[1] \in { W(n) : n \in SettingNames }
                  /\ l[2] = EQ
                  /\ l[3].text # "" }

\* the settings s with the field that n names set to what the text v stands for
Updated(s, n, v) ==
  CASE n = "broker"         -> [s EXCEPT !.mqttBrokerAddress = v]
    [] n = "port"           -> [s EXCEPT !.mqttBrokerPort = atoi(v)]
    [] n = "topicRoot"      -> [s EXCEPT !.mqttTopicRoot = v]
    [] n = "user"           -> [s EXCEPT !.mqttUsername = v]
    [] n = "pass"           -> [s EXCEPT !.mqttPassword = v]
    [] n = "ssid"           -> [s EXCEPT !.ssid = v]
    [] n = "wifipass"       -> [s EXCEPT !.wifiPassword = v]
    [] n = "pulsesPerLiter" -> [s EXCEPT !.pulsesPerLiter = atof(v)]

\* C11: wherever a console line can arrive, each of the commands broker, port,
\* topicRoot, user, pass, ssid, wifipass, pulsesPerLiter with a non-empty
\* value updates its field and saves the settings, and restarts exactly when
\* the settings are then valid; when they are not, the changed field is stored
\* with the sentinel cleared and there is no restart.  The counter is left
\* alone.
C11_SettingsCommand ==
  ConsoleOpen =>
    \A l \in SettingLines :
      LET m == checkForCommand(Cur, l)
          u == Updated(settings, l[1].text, l[3].text)
      IN  /\ m.ev.saved
          /\ m.eeSettings = [u EXCEPT !.validConfig =
                               IF m.settingsAreValid THEN VALID_SETTINGS_FLAG ELSE 0]
          /\ m.settings = m.eeSettings
          /\ (m.ev.restart = "settings") <=> m.settingsAreValid
          /\ m.ev.restart \in {"none", "settings"}
          /\ m.ev.restart = "settings" => m.ev.atRestart[1] = m.eeSettings
          /\ m.pulseCount = pulseCount
          /\ m.eeCount = eeCount

\* a settings command has left the settings incomplete: they are stored with
\* the sentinel cleared and the device runs on
C11_Witness ==
  /\ ev.saved
  /\ ~ev.valid
  /\ ~ev.reset
  /\ ev.restart = "none"
  /\ pc = "loop"
  /\ eeSettings.validConfig = 0
  /\ eeSettings.mqttBrokerAddress = "x"
  /\ eeSettings.ssid = ""
  /\ settings = eeSettings

KnownNames == SettingNames \cup {"reboot", "resetPulses", "factorydefaults"}

\* the line has no separator, or no name before its first separator, or no
\* value after it, or a name that is none of the commands
Malformed(l) ==
  \/ \A i \in DOMAIN l : l[i] # EQ
  \/ l[1] = EQ
  \/ Len(l) = 2
  \/ l[3].text = ""
  \/ l[1] \notin { W(n) : n \in KnownNames }

\* C12: wherever a console line can arrive, a line that is malformed (no
\* separator, empty name, empty value) or whose name is not recognized changes
\* no setting, no counter and nothing in storage, causes no restart, and
\* produces a settings dump.
C12_Malformed ==
  ConsoleOpen =>
    \A l \in { x \in Lines : Malformed(x) } :
      LET m == checkForCommand(Cur, l)
      IN  /\ m.ev.dump
          /\ m.ev.restart = "none"
          /\ ~m.ev.saved
          /\ ~m.ev.stored
          /\ m.settings = settings
          /\ m.settingsAreValid = settingsAreValid
          /\ m.eeSettings = eeSettings
          /\ m.pulseCount = pulseCount
          /\ m.eeCount = eeCount

\* C13: after a reset command (console resetPulses=yes or the remote reset
\* command) the counter is 0 and the volume is 0.
C13_ResetVolume ==
  (ev.reset /\ ev.restart = "none") => pulseCount = 0 /\ IsZeroLiters(liters)

\* C14: wherever a console line can arrive, resetPulses=yes zeroes the counter
\* in memory and in storage and touches nothing else: the settings (in memory
\* and stored), the validity flag, lastReportTime, the drain-sent flag and the
\* edge state stay as they are, nothing is published and no restart is issued.
C14_ResetFrame ==
  ConsoleOpen =>
    LET m == checkForCommand(Cur, Line("resetPulses", "yes"))
    IN  /\ m.pulseCount = 0
        /\ m.eeCount = 0
        /\ m.settings = settings
        /\ m.eeSettings = eeSettings
        /\ m.settingsAreValid = settingsAreValid
        /\ m.lastReportTime = lastReportTime
        /\ m.finalReportSent = finalReportSent
        /\ m.lastTick = lastTick
        /\ m.lastPulseTime = lastPulseTime
        /\ m.pulsePeriod = pulsePeriod
        /\ m.out = << >>
        /\ m.ev.restart = "none"
        /\ ~m.ev.saved

\* resetPulses=yes has just zeroed a counter that a report had stored, with
\* the drain report still due
C14_Witness ==
  /\ ev.reset
  /\ ev.stored
  /\ ev.restart = "none"
  /\ out = << >>
  /\ pulseCount = 0
  /\ eeCount = 0
  /\ ~finalReportSent
  /\ lastReportTime > 0

\* C15: factorydefaults=yes stores the compiled defaults with the sentinel
\* cleared and a zero counter, the counter in memory is 0, and a restart is
\* issued; the boot after that restart finds the device not configured: it
\* skips the network, does not restart, and while the settings are not valid
\* no tick is handled and no pulse counted, and the device restarts only by a
\* command or a loss of power.
C15_FactoryDefaults ==
  [][ /\ ConsoleOpen =>
           LET m == checkForCommand(Cur, Line("factorydefaults", "yes"))
           IN  /\ m.eeSettings = StructDefaults
               /\ m.eeSettings.validConfig = 0
               /\ m.eeCount = 0
               /\ m.ev.restart = "factorydefaults"
               /\ m.ev.atRestart = <<StructDefaults, 0>>
      /\ ev.restart = "factorydefaults" =>
           /\ pc = "setup"
           /\ eeSettings = StructDefaults
           /\ eeCount = 0
           /\ ev'.restart = "none"
           /\ pc' = "setupEnd"
           /\ settings' = StructDefaults
           /\ ~settingsAreValid'
           /\ pulseCount' = 0
           /\ UNCHANGED <<eeSettings, eeCount>>
      /\ (~settingsAreValid /\ pc \in {"setupEnd", "loop"}) =>
           /\ pc' \in {"loop", "setup"}
           /\ ~Ticked
           /\ ev'.restart \in {"none", "settings", "reboot", "factorydefaults", "power"}
           /\ pc' = "loop" => pulseCount' \in {pulseCount, 0} ]_vars

\* the boot after factorydefaults=yes has gone through: not configured, the
\* network skipped
C15_Witness ==
  /\ ev.after = "factorydefaults"
  /\ ev.restart = "none"
  /\ pc = "setupEnd"
  /\ ~settingsAreValid
  /\ settings = StructDefaults
  /\ eeSettings = StructDefaults
  /\ pulseCount = 0
  /\ eeCount = 0

C17_CounterWrites ==
  [][ /\ (ev'.stored \/ eeCount' # eeCount) =>
           \/ \E i \in DOMAIN ev'.reports : ev'.reports[i] \in {"periodic", "drain"}
           \/ ev'.reset
      /\ (SameBoot /\ Rose /\ ev'.reports = << >>) =>
           ~ev'.stored /\ eeCount' = eeCount ]_vars

\* two pulses have been counted without a report: storage still holds 0
C17_Witness ==
  /\ ev.rising
  /\ ev.reports = << >>
  /\ ~ev.stored
  /\ pulseCount = 2
  /\ eeCount = 0

\* C18: whenever the volume is computed as counter / calibration constant (on
\* a rising edge in tickEvent, or in the remote status command), the
\* calibration constant is not 0.
C18_NonZeroDivisor ==
  ev.divided => settings.pulsesPerLiter # 0

\* C19: after every rising edge the volume is the counter divided by the
\* calibration constant, and a report publishes it with one decimal place
\* (the quotient rounded to tenths).
C19_Volume ==
  ev.rising =>
    /\ liters = Quot(pulseCount, settings.pulsesPerLiter)
    /\ ev.reports = <<"periodic">> =>
         /\ out[2].suffix = "MQTT_TOPIC_LITERS"
         /\ out[2].reading.tenths >= 0
         /\ out[2].reading.tenths =
              (20 * pulseCount + settings.pulsesPerLiter)
                 \div (2 * settings.pulsesPerLiter)

\* the entry of raw the first read of the last getTick call fell on
FirstRead == at - Len(ev.reads) + 1

\* C20: getTick returns the first read when the second read, one debounce
\* interval later, agrees with it (there is no third read then), and the
\* third read, two debounce intervals later, otherwise; if the line has
\* settled by the second read (whatever the first read caught), the level
\* returned is the settled level.
C20_Debounce ==
  ev.reads # << >> =>
    /\ Len(ev.reads) \in {2, 3}
    /\ Len(ev.reads) = 2 <=> ev.reads[2] = ev.reads[1]
    /\ Len(ev.reads) = 2 => lastTick = ev.reads[1]
    /\ Len(ev.reads) = 3 => lastTick = ev.reads[3]
    /\ \A i \in 1 .. Len(ev.reads) : ev.reads[i] = raw[FirstRead + i - 1]
    /\ (\A j \in FirstRead + 1 .. Len(raw) : raw[j] = raw[Len(raw)]) =>
         lastTick = raw[Len(raw)]

\* the first read caught a bounce, the line was settled by the second read,
\* and getTick returned the settled level
C20_Witness ==
  /\ Len(ev.reads) = 3
  /\ ev.reads[1] # ev.reads[2]
  /\ \A j \in FirstRead + 1 .. Len(raw) : raw[j] = raw[Len(raw)]
  /\ lastTick = raw[Len(raw)]
  /\ lastTick # ev.reads[1]


\* the step was the end of setup(): lastTick=getTick()
SetupEnds == pc \in {"setupReconnect", "setupEnd"} /\ pc' = "loop"

\* C21: for every sequence of filtered levels passed to handleTick, each call
\* leaves the level it was passed in lastTick, which nothing else changes
\* between two calls of one boot, and adds 1 to the counter exactly when that
\* level is high and the level before it was low: a repeated level and a fall
\* add nothing, and between any two calls that add there is a call with a low
\* level.
C21_OncePerRise ==
  [][ SameBoot =>
        /\ Ticked =>
             /\ ev'.passed = <<lastTick'>>
             /\ pulseCount' = IF lastTick' /\ ~lastTick THEN Inc32(pulseCount)
                                                        ELSE pulseCount
             /\ pulseCount' # pulseCount => lowSince
        /\ (~Ticked /\ ~SetupEnds) => lastTick' = lastTick ]_vars

\* three calls of one boot, levels high, low, high after a low level at the
\* end of setup(): two pulses counted and none reported yet
C21_Witness ==
  ticks = MaxTicks /\ ev.rising /\ unrep = 2 /\ lastTick /\ ev.reports = << >>


\* mqttClient.loop() is about to run: a message of the command topic may be
\* handed to incomingMqttHandler
MqttOpen == pc = "reconnect"

ReportTopics == {"MQTT_TOPIC_RAW", "MQTT_TOPIC_LITERS", "MQTT_TOPIC_PERIOD"}

IsResponse(e) == e.suffix \notin ReportTopics

\* C22: every inbound payload other than the command-request marker produces
\* exactly one response publish, to the topic root followed by the verbatim
\* payload, and the response is "(empty)" exactly when the payload is none of
\* the commands settings, reset pulses, version, status, reboot.
C22_Response ==
  MqttOpen =>
    \A p \in Payloads \ {Payload("MQTT_TOPIC_COMMAND_REQUEST")},
       intact \in BOOLEAN, f \in Outages :
      LET m  == incomingMqttHandler([Cur EXCEPT !.fails = f], p, intact)
          rs == SelectSeq(m.out, IsResponse)
      IN  /\ Len(rs) = 1
          /\ rs[1].root = settings.mqttTopicRoot
          /\ rs[1].suffix = p.text /\ ~p.more
          /\ rs[1].reading = Txt("(empty)") <=> p \notin { Payload(c) : c \in Commands }

\* C23: a payload equal to the command-request marker is ignored outright:
\* nothing is published, no setting, counter or storage cell changes and no
\* restart is issued.
C23_MarkerIgnored ==
  MqttOpen =>
    \A intact \in BOOLEAN, f \in Outages :
      LET m == incomingMqttHandler([Cur EXCEPT !.fails = f],
                                   Payload("MQTT_TOPIC_COMMAND_REQUEST"), intact)
      IN  /\ m.out = << >>
          /\ m.ev = NoEvent
          /\ m.settings = settings /\ m.settingsAreValid = settingsAreValid
          /\ m.pulseCount = pulseCount /\ m.liters = liters
          /\ m.eeSettings = eeSettings /\ m.eeCount = eeCount
          /\ m = [Cur EXCEPT !.fails = f]

\* the marker has just come in on a device that has counted a pulse
C23_Witness ==
  pc = "tick" /\ out = << >> /\ ev = NoEvent /\ inputs = 1 /\ pulseCount = 1

\* C24: on the remote reboot command the acknowledgment is published before
\* the restart, and the restart is issued whether or not that publish
\* succeeded; no other remote command issues a restart.
C24_RemoteReboot ==
  MqttOpen =>
    \A p \in Payloads, intact \in BOOLEAN, f \in SUBSET {1} :
      LET m == incomingMqttHandler([Cur EXCEPT !.fails = f], p, intact)
      IN  IF p.text = "MQTT_PAYLOAD_REBOOT_COMMAND"
            THEN /\ m.ev.restart = "mqtt"
                 /\ Len(m.ev.sentBefore) = 1
                 /\ m.ev.sentBefore[1].suffix = p.text
                 /\ m.ev.sentBefore[1].reading = Txt("REBOOTING")
                 /\ m.ev.sentBefore[1].ok = (1 \notin f)
                 /\ m.out = m.ev.sentBefore
            ELSE m.ev.restart = "none"

\* the remote reboot command has just restarted the device although its
\* acknowledgment could not be published
C24_Witness ==
  /\ pc = "setup" /\ ev.restart = "mqtt"
  /\ Len(out) = 1 /\ ~out[1].ok /\ out[1].reading = Txt("REBOOTING")


\* handleTick is about to be called: reconnect() and mqttClient.loop() are through
TickOpen == pc \in {"reconnect", "tick"}

\* the machine m but for the outcomes of its publishes
Attempted(m) ==
  [m EXCEPT !.fails = {},
            !.out = [i \in DOMAIN m.out |-> [m.out[i] EXCEPT !.ok = TRUE]]]

\* C25: every report attempts exactly three publishes, in the order count,
\* volume, period, whatever the outcome of each: a failed publish is not
\* retried and does not keep the report from making the remaining publishes,
\* nor the caller from updating lastReportTime and finalReportSent and from
\* storing the counter.
C25_ThreePublishes ==
  TickOpen =>
    /\ \A f \in SUBSET (1 .. 3) :
         LET r == report([Cur EXCEPT !.fails = f])
         IN  /\ Len(r.out) = 3
             /\ r.out[1].suffix = "MQTT_TOPIC_RAW" /\ r.out[1].reading = Num(pulseCount)
             /\ r.out[2].suffix = "MQTT_TOPIC_LITERS"
             /\ r.out[2].reading = [tenths |-> Tenths(liters)]
             /\ r.out[3].suffix = "MQTT_TOPIC_PERIOD" /\ r.out[3].reading = Num(pulsePeriod)
             /\ \A i \in 1 .. 3 : r.out[i].ok = (i \notin f)
             /\ [r EXCEPT !.out = << >>, !.fails = {}] = Cur
    /\ \A t \in BOOLEAN, d \in Deltas :
         LET m == handleTick([Cur EXCEPT !.fails = 1 .. 3], t, now + d)
         IN  /\ Attempted(m) = handleTick(Cur, t, now + d)
             /\ m.ev.reports # << >> =>
                  /\ Len(m.out) = 3
                  /\ m.lastReportTime = now + d
                  /\ m.finalReportSent = (m.ev.reports = <<"drain">>)
                  /\ m.ev.stored /\ m.eeCount = m.pulseCount

\* a periodic report has just been made whose first publish failed: the other
\* two were made, the report time is the time of the tick and the counter is
\* stored
C25_Witness ==
  /\ ev.reports = <<"periodic">> /\ Len(out) = 3
  /\ ~out[1].ok /\ out[2].ok /\ out[3].ok
  /\ lastReportTime = now /\ ~finalReportSent /\ eeCount = pulseCount /\ pulseCount > 0


\* control is in reconnect(), or has just left it
InReconnect == pc \in {"setupReconnect", "reconnect"}

\* C26: a failed broker connection is never fatal: a failed attempt of
\* reconnect() polls the console once and leaves control in the loop, and the
\* device is restarted there only by a console command that restarts it (or
\* by a loss of power); no pulse is counted, no level sampled and nothing
\* published while the loop retries; when an attempt succeeds the loop is
\* left: for the end of setup(), a message of the subscribed command topic or
\* the next sampling of the pulse.
C26_ReconnectLoop ==
  [][ InReconnect =>
        /\ pc' \in {pc, "setup", "loop", "tick"}
        /\ pc' = pc =>
             /\ inputs' = inputs + 1
             /\ ticks' = ticks /\ now' = now
             /\ ~ev'.rising /\ ev'.passed = << >> /\ ev'.reports = << >>
             /\ out' = << >>
             /\ lastTick' = lastTick
             /\ pulseCount' = pulseCount \/ (ev'.reset /\ pulseCount' = 0)
        /\ pc' = "setup" =>
             /\ ev'.restart \in {"settings", "reboot", "factorydefaults", "mqtt", "power"}
             /\ ev'.restart = "mqtt" => pc = "reconnect" /\ Len(out') = 1
             /\ ev'.restart \in {"settings", "reboot", "factorydefaults"} => out' = << >>
        /\ pc' = "loop" =>
             \/ pc = "setupReconnect" /\ ticks' = ticks
             \/ pc = "reconnect" /\ ticks' = ticks + 1 /\ ev'.passed = <<lastTick'>>
        /\ pc' = "tick" => pc = "reconnect" /\ inputs' = inputs + 1 ]_vars

\* a console line taken in by a failed attempt within loop() has left the
\* settings incomplete; the connection then succeeded and the next sampling
\* counted a pulse
C26_Witness ==
  /\ pc = "loop" /\ ~settingsAreValid /\ inputs = 1
  /\ ev.rising /\ ev.passed = <<TRUE>> /\ ticks > 0


\* C27: when a storage commit fails in saveSettings or storePulseCount, the
\* caller checks the failure and logs it, the write is not retried and
\* execution continues.
C27_CommitChecked ==
  /\ ConsoleOpen =>
       \A l \in Lines :
         LET m == checkForCommand([Cur EXCEPT !.wear = TRUE], l)
         IN  /\ m.ev.complaints = m.ev.lost
             /\ m.ev.lost <= 2
             /\ m.eeSettings = eeSettings /\ m.eeCount = eeCount
  /\ TickOpen =>
       \A t \in BOOLEAN, d \in Deltas :
         LET m == handleTick([Cur EXCEPT !.wear = TRUE], t, now + d)
         IN  /\ m.ev.complaints = m.ev.lost
             /\ m.ev.lost <= 1
             /\ m.eeSettings = eeSettings /\ m.eeCount = eeCount


\* C28: a high-to-low transition of the filtered level changes only lastTick:
\* the call that sees it does to the counter, the volume, the period,
\* lastPulseTime, lastReportTime, finalReportSent and the stored counter, and
\* publishes, exactly what it would have done had the level stayed high, which
\* is nothing at all unless the final report is due.
C28_FallingEdge ==
  (TickOpen /\ lastTick) =>
    \A d \in Deltas, f \in Outages :
      LET m    == handleTick([Cur EXCEPT !.fails = f], FALSE, now + d)
          same == handleTick([Cur EXCEPT !.fails = f], TRUE, now + d)
      IN  /\ m.lastTick = FALSE
          /\ ~m.ev.rising
          /\ [m EXCEPT !.lastTick = TRUE] = same
          /\ ~DrainDue(Cur, now + d) => [m EXCEPT !.lastTick = TRUE, !.fails = {}] = Cur

\* the second call of a boot has just seen the level fall after the pulse the
\* first call counted, and no report was due
C28_Witness ==
  /\ ticks = 2 /\ unrep = 1 /\ ev.passed = <<FALSE>> /\ ~lastTick
  /\ out = << >> /\ ~ev.stored /\ ~finalReportSent /\ lastPulseTime < now


\* the step was a handleTick call that was passed a high level after a low one
RoseTo == Ticked /\ ~lastTick /\ ev'.passed = <<TRUE>>

\* C29: on every rising edge the period becomes the timestamp of the edge
\* minus the timestamp of the previous rising edge of this boot, and
\* lastPulseTime becomes the timestamp of the edge; for the first rising edge
\* of a boot the baseline is 0, so that the period is the time since boot.
C29_Period ==
  [][ SameBoot =>
        /\ RoseTo =>
             /\ pulsePeriod' = Sub32(now', riseAt)
             /\ lastPulseTime' = now'
             /\ riseAt = 0 => pulsePeriod' = now'
        /\ ~RoseTo => pulsePeriod' = pulsePeriod /\ lastPulseTime' = lastPulseTime ]_vars

\* the second pulse of a boot has just been counted, after a report made
\* since the first
C29_Witness ==
  /\ ev.rising /\ pulsePeriod > 0 /\ pulsePeriod < now /\ lastPulseTime = now
  /\ lastReportTime > now - pulsePeriod /\ lastReportTime < now


\* C30: the settings region (address 0, sizeof(settings) bytes) and the
\* counter region (address sizeof(settings), sizeof(pulseCount) bytes) are
\* disjoint and both inside the opened storage area: storing the counter
\* writes the counter region and changes no byte of the stored settings, and
\* saving the settings writes the settings region and changes no byte of the
\* stored counter.
C30_Regions ==
  [][ LET S == Region(0, SizeofSettings)
          C == Region(pulseCountStorage, SizeofCount)
          A == Region(0, Len(flash))
      IN  /\ S \cap C = {}
          /\ S \subseteq A /\ C \subseteq A
          /\ ev'.saved =>
               /\ \A a \in S : flash'[a + 1] \in Bytes
               /\ \A a \in A \ S : flash'[a + 1] = flash[a + 1]
          /\ ev'.stored =>
               /\ \A a \in C : flash'[a + 1] \in Bytes
               /\ \A a \in A \ C : flash'[a + 1] = flash[a + 1] ]_vars

\* settings of more than one byte were saved with every byte 1, and then the
\* counter was stored with every byte 0
C30_Witness ==
  /\ pc = "flash" /\ ev.stored /\ SizeofSettings > 1
  /\ \A a \in Region(0, SizeofSettings) : flash[a + 1] = 1
  /\ \A a \in Region(pulseCountStorage, SizeofCount) : flash[a + 1] = 0


\* C31: a single handleTick call publishes at most one report: a call that
\* processes a rising edge, whether or not the edge triggers a periodic
\* report, never also publishes a drain report.
C31_OneReportPerCall ==
  TickOpen =>
    \A t \in BOOLEAN, d \in Deltas :
      LET m == handleTick(Cur, t, now + d)
      IN  /\ Len(m.ev.reports) <= 1
          /\ Len(m.out) = 3 * Len(m.ev.reports)
          /\ m.ev.rising => m.ev.reports \in {<< >>, <<"periodic">>}
          /\ ~m.ev.rising => m.ev.reports \in {<< >>, <<"drain">>}

\* a call has just processed a rising edge more than three report intervals
\* after the report before: it made the periodic report and no drain report
C31_Witness ==
  /\ ev.rising /\ ev.reports = <<"periodic">> /\ Len(out) = 3
  /\ Len(lastPub) = 2 /\ lastPub[2] = now
  /\ lastPub[2] - lastPub[1] > 3 * REPORT_FREQ


\* the step left the device in a boot in which no pulse has been counted yet
NoPulseYet == SameBoot /\ riseAt' = 0

\* C32 as stated: after boot, until the loop observes the first low-to-high
\* transition of the filtered level, the scheduler publishes no report and the
\* counter stays at the value restored from storage.
C32_AsStated ==
  [][ NoPulseYet =>
        /\ SchedReports(ev') = << >>
        /\ pulseCount' = pulseCount ]_vars

\* C32 amended: after boot, until the loop observes the first low-to-high
\* transition of the filtered level, the scheduler publishes no report,
\* finalReportSent stays true and lastReportTime 0, and the counter stays at
\* the value restored from storage unless a reset command sets it to 0; a
\* level that is high at the end of setup() and stays high is not counted.
C32_QuietStart ==
  [][ NoPulseYet =>
        /\ SchedReports(ev') = << >>
        /\ lastPub' = << >>
        /\ finalReportSent' /\ lastReportTime' = 0
        /\ ~ev'.stored \/ ev'.reset
        /\ pulseCount' = pulseCount \/ (ev'.reset /\ pulseCount' = 0)
        /\ pulseCount' = eeCount'
        /\ (Ticked /\ lastTick) => pulseCount' = pulseCount ]_vars

\* the line was high at the end of setup() and is still high more than three
\* report intervals later: nothing was counted and nothing reported
C32_Witness ==
  /\ pc = "loop" /\ riseAt = 0 /\ ticks > 0 /\ lastTick /\ ev.passed = <<TRUE>>
  /\ now > 3 * REPORT_FREQ /\ out = << >> /\ lastPub = << >>
  /\ finalReportSent /\ pulseCount = eeCount /\ lowSince


\* C33: sensor input is processed only while the settings are valid: while
\* they are invalid (never configured, or made invalid by a command that is
\* saved without a restart, such as port=0) no level is passed to handleTick,
\* so that the counter, the report times and the stored counter do not change
\* because of sensor input, and no report is published.
C33_ValidOnly ==
  [][ (SameBoot /\ ~settingsAreValid) =>
        /\ ~Ticked
        /\ ~ev'.rising
        /\ ev'.reports = << >>
        /\ lastReportTime' = lastReportTime /\ finalReportSent' = finalReportSent
        /\ pulseCount' = pulseCount \/ (ev'.reset /\ pulseCount' = 0)
        /\ eeCount' = eeCount \/ ev'.reset ]_vars


\* the counter has been restored: setup() is past readPulseCount
Restored == pc # "setup"

\* C34 as stated: in every state in which the counter has been restored, the
\* stored counter is less than or equal to the counter in memory.
C34_AsStated ==
  Restored => (eeCount = pulseCount \/ Below(eeCount, pulseCount))

\* C34 amended: once setup() has restored it, the counter in memory is the
\* stored counter plus, modulo 2^32, the pulses counted since it was last
\* stored, which are no more than the handleTick calls of the boot; the two
\* are equal immediately after every periodic report, drain report and reset;
\* and the counter that setup() restores after a restart or a loss of power
\* is the one last stored.
C34_StoredCounter ==
  [][ /\ Restored' =>
           /\ Sub32(pulseCount', eeCount') \in 0 .. ticks'
           /\ (Ticked /\ SameBoot) =>
                Sub32(pulseCount', eeCount') \in
                  {0, Sub32(pulseCount, eeCount), Sub32(pulseCount, eeCount) + 1}
      /\ (SchedReports(ev') # << >> \/ ev'.reset) => eeCount' = pulseCount'
      /\ (~Restored /\ Restored') => pulseCount' = eeCount /\ eeCount' = eeCount
      /\ ev'.restart = "power" => eeCount' = eeCount ]_vars

\* a device that had stored the counter 1 with a report has come back from a
\* loss of power, and setup() has restored the counter 1
C34_Witness ==
  /\ Restored /\ ev.after = "power" /\ pulseCount = 1 /\ eeCount = 1
  /\ settingsAreValid /\ ticks = 0


\* C35: the elapsed-time tests subtract modulo 2^32: when the millisecond
\* clock wraps from 2^32-1 to 0 between lastReportTime (or lastPulseTime) and
\* the timestamp of a call, the periodic report is made exactly when the
\* milliseconds truly elapsed since lastReportTime exceed REPORT_FREQ, the
\* drain report exactly when they exceed 3*REPORT_FREQ, and the period is the
\* milliseconds truly elapsed since lastPulseTime.
C35_ClockWrap ==
  [][ Ticked =>
        LET elapsed == now' - lastReportTime
            rose    == ~lastTick /\ ev'.passed = <<TRUE>>
        IN  /\ ev'.reports = <<"periodic">> <=> (rose /\ elapsed > REPORT_FREQ)
            /\ ev'.reports = <<"drain">> <=>
                 (~rose /\ ~finalReportSent /\ elapsed > 3 * REPORT_FREQ)
            /\ ev'.reports \in {<< >>, <<"periodic">>, <<"drain">>}
            /\ rose => pulsePeriod' = now' - lastPulseTime
            /\ rose => lastPulseTime' = now'
            /\ ev'.reports # << >> => lastReportTime' = now' ]_vars

\* a periodic report has just been made less than a report interval after the
\* wrap of the clock, the report before it dating from before the wrap
C35_Witness ==
  /\ ev.reports = <<"periodic">> /\ now >= 0 /\ now < REPORT_FREQ
  /\ Len(lastPub) = 2 /\ lastPub[1] < 0 /\ lastPub[2] = now
  /\ lastReportTime = now /\ pulsePeriod > REPORT_FREQ


\* the machine m between two steps of the loop
Settled(m) == [m EXCEPT !.ev = NoEvent, !.out = << >>, !.fails = {}]

\* C36: the remote status command publishes the count, the volume and the
\* period and then its response, and leaves lastReportTime, finalReportSent,
\* the counter and the stored counter as they were; the call of handleTick
\* that follows makes the periodic or drain report it would have made without
\* the command.
C36_StatusFrame ==
  MqttOpen =>
    \A intact \in BOOLEAN, f \in Outages :
      LET m == incomingMqttHandler([Cur EXCEPT !.fails = f],
                                   Payload("MQTT_PAYLOAD_STATUS_COMMAND"), intact)
      IN  /\ Len(m.out) = 4
          /\ [i \in 1 .. 3 |-> m.out[i].suffix]
               = <<"MQTT_TOPIC_RAW", "MQTT_TOPIC_LITERS", "MQTT_TOPIC_PERIOD">>
          /\ m.out[1].reading = Num(pulseCount)
          /\ m.out[3].reading = Num(pulsePeriod)
          /\ IsResponse(m.out[4])
          /\ m.out[4].reading = Txt("Status report complete")
          /\ m.ev.reports = <<"status">>
          /\ m.ev.restart = "none" /\ ~m.ev.stored /\ ~m.ev.reset
          /\ m.lastReportTime = lastReportTime
          /\ m.finalReportSent = finalReportSent
          /\ m.pulseCount = pulseCount
          /\ m.eeCount = eeCount
          /\ m.lastTick = lastTick /\ m.lastPulseTime = lastPulseTime
          /\ \A t \in BOOLEAN, d \in Deltas :
               LET with    == handleTick(Settled(m), t, now + d)
                   without == handleTick(Cur, t, now + d)
               IN  /\ with.ev.reports = without.ev.reports
                   /\ with.lastReportTime = without.lastReportTime
                   /\ with.finalReportSent = without.finalReportSent
                   /\ with.pulseCount = without.pulseCount
                   /\ with.eeCount = without.eeCount

\* the status command has just been served while a drain report is pending
C36_Witness ==
  /\ pc = "tick" /\ ev.reports = <<"status">> /\ Len(out) = 4
  /\ out[4].reading = Txt("Status report complete")
  /\ ~finalReportSent /\ lastReportTime = now /\ now > 0
  /\ pulseCount = 1 /\ eeCount = 1

====
